---- MODULE Spec2Model ----
(***************************************************************************)
(* A model of the newstr crate (src/src/lib.rs): the macro_rules templates *)
(* that generate String-backed new types, the run-time behaviour of a      *)
(* generated type, and the lazily compiled regex predicate.                *)
(*                                                                         *)
(*   Spec       a caller using one generated type (is_valid, from_str,     *)
(*              Display, From, Deref, ...) on one input text               *)
(*   SpecMacro  macro expansion of is_valid_newstring! / from_str_newstring!*)
(*   SpecRegex  threads calling a predicate made by regex_is_valid!        *)
(***************************************************************************)
EXTENDS Integers, Sequences, FiniteSets, TLC

VARIABLES
    defn,       \* Spec: the generated type: [mode, closure]
    input,      \* Spec: the text the caller passes (s: &str)
    val,        \* Spec: the value the caller holds: [some, f0, via]
    ret,        \* Spec: what the last call returned: [op, ok, text, err]
    call,       \* SpecMacro: the caller's macro invocation, as written
    pending,    \* SpecMacro: macro invocations still to expand
    items,      \* SpecMacro: items emitted so far
    outcome,    \* SpecMacro: "" while expanding, then "compiled" or the compile error
    pattern,    \* SpecRegex: the $regex literal of regex_is_valid!
    once,       \* SpecRegex: state of the Once behind the lazy static
    cell,       \* SpecRegex: the lazy static's storage: [some, re]
    compiles,   \* SpecRegex: how many times Regex::from_str has run
    calls,      \* SpecRegex: how many calls of the predicate were started
    tpc,        \* SpecRegex: each thread's position in $fn_name
    targ,       \* SpecRegex: each thread's argument s
    tret        \* SpecRegex: each thread's last outcome

vars == <<defn, input, val, ret, call, pending, items, outcome,
          pattern, once, cell, compiles, calls, tpc, targ, tret>>

typeVars  == <<defn, input, val, ret>>
macroVars == <<call, pending, items, outcome>>
regexVars == <<pattern, once, cell, compiles, calls, tpc, targ, tret>>

(***************************************************************************)
(* Text.  A &str / String is a sequence of chars; a char is a one-letter   *)
(* string.                                                                 *)
(***************************************************************************)
MaxLen == 2

Chars == {"a", "A", "7", "_", "!", "é"}

Texts == UNION {[1..n -> Chars] : n \in 0..MaxLen}

\* char::is_ascii
is_ascii_char(c) == c \notin {"é", "É"}

\* char::is_ascii_alphanumeric
is_ascii_alphanumeric(c) == c \in {"a", "A", "7"}

\* char::is_uppercase
is_uppercase(c) == c \in {"A", "É"}

\* char::to_uppercase
to_uppercase_char(c) == CASE c = "a" -> "A" [] c = "é" -> "É" [] OTHER -> c

\* str::to_uppercase
to_uppercase(s) == [i \in 1..Len(s) |-> to_uppercase_char(s[i])]

\* str::to_string / String::from(&str): a copy of the same chars
to_string_str(s) == [i \in 1..Len(s) |-> s[i]]

(***************************************************************************)
(* Result<String, E> and Result<Self, E>.  Self is the tuple struct        *)
(* `pub struct $new_name(String)`, a record with the one field f0.         *)
(***************************************************************************)
Self(s) == [f0 |-> s]

OkString(s)  == [ok |-> TRUE, s |-> s, err |-> ""]
ErrString(e) == [ok |-> FALSE, s |-> <<>>, err |-> e]

OkSelf(v)  == [ok |-> TRUE, v |-> v, err |-> ""]
ErrSelf(e) == [ok |-> FALSE, v |-> Self(<<>>), err |-> e]

\* Result::map(|s| Self(s))
map_Self(r) == IF r.ok THEN OkSelf(Self(r.s)) ELSE ErrSelf(r.err)

\* Result::is_ok
is_ok(r) == r.ok

(***************************************************************************)
(* regex::Regex, as far as regex_is_valid! uses it (lib.rs:322-324): a     *)
(* pattern is compiled by Regex::from_str and tested by Regex::is_match.   *)
(* The patterns of the model are a bracketed range with an optional `+`.   *)
(***************************************************************************)
\* the Unicode scalar value of a char
Code(c) ==
    CASE c = "!" -> 33  [] c = "0" -> 48  [] c = "1" -> 49  [] c = "2" -> 50
      [] c = "3" -> 51  [] c = "7" -> 55  [] c = "9" -> 57  [] c = "A" -> 65
      [] c = "_" -> 95  [] c = "a" -> 97  [] c = "b" -> 98  [] c = "c" -> 99
      [] c = "É" -> 201 [] c = "é" -> 233 [] OTHER -> 0

IntegerPattern  == <<"[", "0", "-", "9", "]", "+">>   \* r"[0-9]+", lib.rs:311
DigitPattern    == <<"[", "0", "-", "9", "]">>
UnclosedPattern == <<"[", "0", "-", "9">>
ReversedPattern == <<"[", "9", "-", "0", "]", "+">>

Patterns == {IntegerPattern, DigitPattern, UnclosedPattern, ReversedPattern}

NoRegex == [lo |-> "", hi |-> "", plus |-> FALSE]

\* Regex::from_str: Ok(compiled matcher) or Err(syntax error)
Regex_from_str(p) ==
    IF /\ Len(p) \in {5, 6}
       /\ p[1] = "[" /\ p[3] = "-" /\ p[5] = "]"
       /\ Len(p) = 6 => p[6] = "+"
    THEN IF Code(p[2]) <= Code(p[4])
         THEN [ok |-> TRUE, re |-> [lo |-> p[2], hi |-> p[4], plus |-> Len(p) = 6]]
         ELSE [ok |-> FALSE, re |-> NoRegex]
    ELSE [ok |-> FALSE, re |-> NoRegex]

InClass(re, c) == Code(re.lo) <= Code(c) /\ Code(c) <= Code(re.hi)

\* the whole of w is one match of re
FullMatch(re, w) ==
    /\ Len(w) >= 1
    /\ ~re.plus => Len(w) = 1
    /\ \A i \in 1..Len(w) : InClass(re, w[i])

\* a match anchored at both ends (what is_match does NOT do)
is_match_anchored(re, s) == FullMatch(re, s)

\* Regex::is_match: is there a match anywhere in s
is_match(re, s) ==
    \E i \in 1..Len(s) : \E j \in i..Len(s) : FullMatch(re, SubSeq(s, i, j))

(***************************************************************************)
(* The closures a caller hands to the macros.  Predicates have the shape   *)
(* fn(&str) -> bool, parse functions fn(&str) -> Result<String, Err>.      *)
(***************************************************************************)
\* lib.rs:32-34
is_identifier_value(s) ==
    /\ s # <<>>
    /\ \A i \in 1..Len(s) : is_ascii_alphanumeric(s[i]) \/ s[i] = "_"

\* lib.rs:67  |s: &str| !s.is_empty()
not_empty(s) == s # <<>>

\* lib.rs:266  str::is_ascii
is_ascii(s) == \A i \in 1..Len(s) : is_ascii_char(s[i])

\* tests/other_traits.rs:6  |_| true
always_true(s) == TRUE

\* lib.rs:311  regex_is_valid!(r"[0-9]+", is_valid_integer), once compiled
is_valid_integer(s) == is_match(Regex_from_str(IntegerPattern).re, s)

\* lib.rs:352-358
parse_uppercase_only(s) ==
    IF \A i \in 1..Len(s) : is_uppercase(s[i])
    THEN OkString(to_string_str(s))
    ELSE ErrString("()")

\* tests/other_traits.rs:8  |s: &str| Ok(s.to_string())
parse_to_string(s) == OkString(to_string_str(s))

\* a parse function that returns an altered form (lib.rs:330-333) and has an
\* error type of its own (lib.rs:338-340):
\*   |s| if s.is_empty() { Err(ParseError::Empty) } else { Ok(s.to_uppercase()) }
parse_normalized(s) ==
    IF s = <<>> THEN ErrString("ParseError::Empty") ELSE OkString(to_uppercase(s))

\* a parse function that returns an altered form (lib.rs:330-333):
\*   |s| s.strip_prefix('!').map(str::to_string).ok_or(())
parse_sigil(s) ==
    IF Len(s) >= 1 /\ s[1] = "!" THEN OkString(SubSeq(s, 2, Len(s))) ELSE ErrString("()")

Predicates == {"is_identifier_value", "not_empty", "is_ascii", "always_true",
               "is_valid_integer"}

ParseFunctions == {"parse_uppercase_only", "parse_to_string", "parse_normalized",
                   "parse_sigil"}

\* $closure(s), for a predicate
call_predicate(c, s) ==
    CASE c = "is_identifier_value" -> is_identifier_value(s)
      [] c = "not_empty"           -> not_empty(s)
      [] c = "is_ascii"            -> is_ascii(s)
      [] c = "always_true"         -> always_true(s)
      [] c = "is_valid_integer"    -> is_valid_integer(s)

\* $closure(s), for a parse function
call_parse(c, s) ==
    CASE c = "parse_uppercase_only" -> parse_uppercase_only(s)
      [] c = "parse_to_string"      -> parse_to_string(s)
      [] c = "parse_normalized"     -> parse_normalized(s)
      [] c = "parse_sigil"          -> parse_sigil(s)

(***************************************************************************)
(* The generated type.  defn.mode says which macro made it.                *)
(***************************************************************************)
\* is_valid_inner!: pub fn is_valid (lib.rs:158-160)
is_valid_inner_is_valid(d, s) == call_predicate(d.closure, s)

\* a from_str that skips the check
is_valid_inner_from_str_unchecked(d, s) == OkSelf(Self(to_string_str(s)))

\* a from_str with the test negated
is_valid_inner_from_str_negated(d, s) ==
    IF ~is_valid_inner_is_valid(d, s)
    THEN OkSelf(Self(to_string_str(s)))
    ELSE ErrSelf("()")

\* a from_str that stores something else than the text it checked
is_valid_inner_from_str_empty(d, s) ==
    IF is_valid_inner_is_valid(d, s) THEN OkSelf(Self(<<>>)) ELSE ErrSelf("()")

\* is_valid_inner!: FromStr::from_str (lib.rs:148-154)
is_valid_inner_from_str(d, s) ==
    IF is_valid_inner_is_valid(d, s)
    THEN OkSelf(Self(to_string_str(s)))
    ELSE ErrSelf("()")

\* a from_str that validates with the parse function but keeps the input
from_str_inner_from_str_keep_input(d, s) ==
    IF call_parse(d.closure, s).ok
    THEN OkSelf(Self(to_string_str(s)))
    ELSE ErrSelf("()")

\* from_str_inner!: FromStr::from_str (lib.rs:174-176)
from_str_inner_from_str(d, s) == map_Self(call_parse(d.closure, s))

\* from_str_inner!: pub fn is_valid (lib.rs:180-182)
from_str_inner_is_valid(d, s) == is_ok(from_str_inner_from_str(d, s))

\* T::is_valid
is_valid(d, s) ==
    IF d.mode = "predicate" THEN is_valid_inner_is_valid(d, s)
    ELSE from_str_inner_is_valid(d, s)

\* T::from_str
from_str(d, s) ==
    IF d.mode = "predicate" THEN is_valid_inner_from_str(d, s)
    ELSE from_str_inner_from_str(d, s)

\* new_unchecked!: pub fn new_unchecked<S: Into<String>>(s: S) -> Self
new_unchecked(s) == Self(to_string_str(s))

(***************************************************************************)
(* standard_impls! (lib.rs:115-137): Display, From<T> for String, Deref.   *)
(* A Formatter is the output buffer and the width of the caller's format   *)
(* spec; write!(f, "{}", x) formats x with a spec of its own, which has no *)
(* width, no precision and no flags.                                       *)
(***************************************************************************)
NoWidth == [some |-> FALSE, n |-> 0]

Formatter(w) == [buf |-> <<>>, width |-> w]

Spaces(n) == [i \in 1..n |-> " "]

\* Formatter::pad: the Display of a String, under a width
pad(f, w, s) ==
    IF w.some /\ Len(s) < w.n
    THEN [f EXCEPT !.buf = @ \o s \o Spaces(w.n - Len(s))]
    ELSE [f EXCEPT !.buf = @ \o s]

\* write!(f, "{:?}", self.0): the Debug of a String, quoted
fmt_debug(v, f) == [f EXCEPT !.buf = @ \o <<"\"">> \o v.f0 \o <<"\"">>]

\* impl Display: write!(f, "{}", self.0)  (lib.rs:118-120)
fmt(v, f) == pad(f, NoWidth, v.f0)

\* ToString::to_string, by way of Display
to_string(v) == fmt(v, Formatter(NoWidth)).buf

\* format!("{:w$}", v)
format_width(v, n) == fmt(v, Formatter([some |-> TRUE, n |-> n])).buf

\* impl From<$new_name> for String (lib.rs:124-126)
String_from(v) == v.f0

\* impl Deref, Target = str (lib.rs:132-134)
deref(v) == v.f0

\* impl AsRef<str>
as_ref(v) == v.f0

(***************************************************************************)
(* Spec: a caller with one generated type and one input text.              *)
(***************************************************************************)
MaxWidth == 3

Defns == [mode : {"predicate"}, closure : Predicates]
            \cup [mode : {"parse"}, closure : ParseFunctions]

NoValue == [some |-> FALSE, f0 |-> <<>>, via |-> ""]

NoRet == [op |-> "", ok |-> FALSE, text |-> <<>>, err |-> "", self |-> <<>>]

Tok(k, v) == [k |-> k, v |-> v]

NoTok == Tok("", "")

NoCall == [macro |-> "", closure |-> NoTok, error |-> NoTok, others |-> <<>>,
           sep |-> NoTok, scope |-> {}]

MacroIdle ==
    /\ call = NoCall
    /\ pending = <<>>
    /\ items = <<>>
    /\ outcome = ""

RegexIdle ==
    /\ pattern = <<>>
    /\ once = "INCOMPLETE"
    /\ cell = [some |-> FALSE, re |-> NoRegex]
    /\ compiles = 0
    /\ calls = 0
    /\ tpc = <<>>
    /\ targ = <<>>
    /\ tret = <<>>

TypeIdle ==
    /\ defn = [mode |-> "", closure |-> ""]
    /\ input = <<>>
    /\ val = NoValue
    /\ ret = NoRet

Init ==
    /\ defn \in Defns
    /\ input \in Texts
    /\ val = NoValue
    /\ ret = NoRet
    /\ MacroIdle
    /\ RegexIdle

\* T::is_valid(s)
CallIsValid ==
    /\ ret' = [NoRet EXCEPT !.op = "is_valid", !.ok = is_valid(defn, input)]
    /\ UNCHANGED <<defn, input, val>>
    /\ UNCHANGED <<macroVars, regexVars>>

\* T::from_str(s); the caller keeps the value of an Ok
CallFromStr ==
    LET r == from_str(defn, input) IN
    /\ ret' = [NoRet EXCEPT !.op = "from_str", !.ok = r.ok,
                            !.text = r.v.f0, !.err = r.err]
    /\ val' = IF r.ok THEN [some |-> TRUE, f0 |-> r.v.f0, via |-> "from_str"]
                      ELSE NoValue
    /\ UNCHANGED <<defn, input>>
    /\ UNCHANGED <<macroVars, regexVars>>

\* T::new_unchecked(s)
CallNewUnchecked ==
    LET v == new_unchecked(input) IN
    /\ ret' = [NoRet EXCEPT !.op = "new_unchecked", !.ok = TRUE, !.text = v.f0]
    /\ val' = [some |-> TRUE, f0 |-> v.f0, via |-> "new_unchecked"]
    /\ UNCHANGED <<defn, input>>
    /\ UNCHANGED <<macroVars, regexVars>>

Returned(op, text) ==
    [NoRet EXCEPT !.op = op, !.ok = TRUE, !.text = text, !.self = val.f0]

\* v.to_string()
CallToString ==
    /\ val.some
    /\ ret' = Returned("to_string", to_string(Self(val.f0)))
    /\ UNCHANGED <<defn, input, val>>
    /\ UNCHANGED <<macroVars, regexVars>>

\* format!("{:w$}", v)
CallFormat ==
    /\ val.some
    /\ \E w \in 0..MaxWidth :
          ret' = Returned("format", format_width(Self(val.f0), w))
    /\ UNCHANGED <<defn, input, val>>
    /\ UNCHANGED <<macroVars, regexVars>>

\* String::from(v), which consumes v
CallStringFrom ==
    /\ val.some
    /\ ret' = Returned("String::from", String_from(Self(val.f0)))
    /\ val' = NoValue
    /\ UNCHANGED <<defn, input>>
    /\ UNCHANGED <<macroVars, regexVars>>

\* v.deref()
CallDeref ==
    /\ val.some
    /\ ret' = Returned("deref", deref(Self(val.f0)))
    /\ UNCHANGED <<defn, input, val>>
    /\ UNCHANGED <<macroVars, regexVars>>

\* v.as_ref()
CallAsRef ==
    /\ val.some
    /\ ret' = Returned("as_ref", as_ref(Self(val.f0)))
    /\ UNCHANGED <<defn, input, val>>
    /\ UNCHANGED <<macroVars, regexVars>>

Next ==
    \/ CallIsValid
    \/ CallFromStr
    \/ CallNewUnchecked
    \/ CallToString
    \/ CallFormat
    \/ CallStringFrom
    \/ CallDeref
    \/ CallAsRef

Spec == Init /\ [][Next]_vars

(***************************************************************************)
(* Properties of the generated type, checked under Spec.                   *)
(***************************************************************************)
\* C1: in predicate mode and in parse mode, for every text t, T::is_valid(t)
\* is true if and only if T::from_str(t) returns Ok.
C1_ValidIffParses ==
    /\ ret.op = "from_str" => (ret.ok <=> is_valid(defn, input))
    /\ ret.op = "is_valid" => (ret.ok <=> from_str(defn, input).ok)

\* from_str rejects a non-empty text that is_valid rejects too
C1_Witness ==
    /\ ret.op = "from_str"
    /\ ~ret.ok
    /\ ~is_valid(defn, input)
    /\ input # <<>>

\* C2 as claimed: every value obtained from T::from_str, in either mode and
\* for any predicate or parse function, has a payload p with T::is_valid(p).
C2_PayloadIsValid ==
    (val.some /\ val.via = "from_str") => is_valid(defn, val.f0)

\* C2 as amended: every value obtained from T::from_str was built from an
\* input t with T::is_valid(t); in predicate mode the payload is t itself, so
\* T::is_valid(payload) holds and only new_unchecked can make a value whose
\* payload fails the rule; in parse mode the payload is the text the parse
\* function returned for t, which the parse function need not accept.
C2_InputIsValid ==
    /\ (val.some /\ val.via = "from_str") =>
          /\ is_valid(defn, input)
          /\ defn.mode = "predicate" => val.f0 = input /\ is_valid(defn, val.f0)
          /\ defn.mode = "parse" => val.f0 = call_parse(defn.closure, input).s
    /\ (val.some /\ defn.mode = "predicate" /\ ~is_valid(defn, val.f0)) =>
          val.via = "new_unchecked"

\* a value from from_str, in parse mode, whose payload is_valid rejects
C2_Witness ==
    /\ val.some
    /\ val.via = "from_str"
    /\ defn.mode = "parse"
    /\ val.f0 # input
    /\ ~is_valid(defn, val.f0)

\* C3: to_string() (Display), String::from(v), deref() and as_ref() return
\* exactly the stored payload, and in predicate mode from_str(t).to_string()
\* is t for every accepted t.
C3_AccessorsReturnPayload ==
    /\ ret.op \in {"to_string", "format", "String::from", "deref", "as_ref"} =>
          ret.text = ret.self
    /\ (ret.op \in {"to_string", "deref", "as_ref"}
            /\ val.via = "from_str" /\ defn.mode = "predicate") =>
          ret.text = input

\* to_string() of a value that from_str accepted, in predicate mode
C3_Witness ==
    /\ ret.op = "to_string"
    /\ val.via = "from_str"
    /\ defn.mode = "predicate"
    /\ Len(input) = MaxLen
    /\ ret.text = input

\* C4: in parse mode T::from_str(t) returns what the parse function returns
\* for t: on Ok(s) the payload is s, on Err(e) the result is Err(e); the
\* generator rejects nothing the parse function accepts.
C4_FromStrIsParse ==
    (defn.mode = "parse" /\ ret.op = "from_str") =>
        LET r == call_parse(defn.closure, input) IN
        /\ ret.ok = r.ok
        /\ r.ok => ret.text = r.s /\ val.some /\ val.f0 = r.s
        /\ ~r.ok => ret.err = r.err /\ ~val.some

\* an Ok whose payload differs from the input text
C4_Witness ==
    /\ defn.mode = "parse"
    /\ ret.op = "from_str"
    /\ ret.ok
    /\ ret.text # input
    /\ ret.text # <<>>

\* C6: T::new_unchecked(t) yields a value whose payload is t, also when
\* T::is_valid(t) is false, and for every t that predicate-mode from_str
\* accepts, T::from_str(t) equals T::new_unchecked(t).
C6_UncheckedIsVerbatim ==
    /\ ret.op = "new_unchecked" =>
          ret.ok /\ ret.text = input /\ val.some /\ val.f0 = input
    /\ (defn.mode = "predicate" /\ ret.op = "from_str" /\ ret.ok) =>
          Self(val.f0) = new_unchecked(input)

\* new_unchecked of a text that is_valid rejects
C6_Witness ==
    /\ ret.op = "new_unchecked"
    /\ val.some
    /\ val.f0 = input
    /\ input # <<>>
    /\ ~is_valid(defn, input)

(***************************************************************************)
(* SpecMacro: macro_rules expansion.  An invocation is a sequence of       *)
(* tokens; an expression or a type that spans several tokens is one token  *)
(* here, of the kind that says how it parses:                              *)
(*    ident    one identifier (also an expression and a type)              *)
(*    path     a::b (an expression and a type, not an identifier)          *)
(*    unit     () (an expression and a type)                               *)
(*    closure  |s| ... (an expression only)                                *)
(*    nt_expr, nt_ty   a fragment already parsed by an outer macro, which  *)
(*             an inner macro can only take as the same fragment           *)
(* The rules of a macro are tried in order and the first that matches the  *)
(* whole invocation is transcribed; when none matches, compilation fails.  *)
(* When nothing is left to expand the compiler resolves the derive list of *)
(* the struct and type-checks from_str, and only then is the program       *)
(* compiled.                                                               *)
(***************************************************************************)
MaxTags == 2

Comma == Tok(",", ",")
Semi  == Tok(";", ";")
Ident(v) == Tok("ident", v)

\* can the token be parsed as the fragment
MayBe(frag, tok) ==
    CASE frag = "ident" -> tok.k = "ident"
      [] frag = "expr"  -> tok.k \in {"ident", "path", "unit", "closure", "nt_expr"}
      [] frag = "ty"    -> tok.k \in {"ident", "path", "unit", "nt_ty"}

\* the token as the fragment binds it
Bound(frag, tok) ==
    CASE frag = "ident" -> tok
      [] frag = "expr"  -> Tok("nt_expr", tok.v)
      [] frag = "ty"    -> Tok("nt_ty", tok.v)

\* matcher elements: $name:frag, a literal token, and $( $name:ident ),*
Frag(name, frag) == [t |-> "frag", name |-> name, frag |-> frag, tok |-> NoTok]
Lit(tok)         == [t |-> "lit", name |-> "", frag |-> "", tok |-> tok]
Rep(name)        == [t |-> "rep", name |-> name, frag |-> "ident", tok |-> Comma]

NoBinds == [new_name |-> <<>>, closure |-> <<>>, error |-> <<>>, other |-> <<>>]

NoMatch == [ok |-> FALSE, b |-> NoBinds]

\* $( $x:ident ),* against the rest of the invocation: identifiers with
\* commas between them, up to the end
MatchRep(rest) ==
    LET n == Len(rest) IN
    IF \/ n = 0
       \/ /\ n % 2 = 1
          /\ \A i \in 1..n : IF i % 2 = 1 THEN MayBe("ident", rest[i])
                                          ELSE rest[i] = Comma
    THEN [ok |-> TRUE, seq |-> [i \in 1..((n + 1) \div 2) |-> rest[2 * i - 1]]]
    ELSE [ok |-> FALSE, seq |-> <<>>]

RECURSIVE MatchFrom(_, _, _, _, _)
\* match pat[i..] against toks[j..], with the bindings b made so far
MatchFrom(pat, i, toks, j, b) ==
    IF i > Len(pat)
    THEN IF j > Len(toks) THEN [ok |-> TRUE, b |-> b] ELSE NoMatch
    ELSE LET p == pat[i] IN
         CASE p.t = "lit" ->
                IF j <= Len(toks) /\ toks[j] = p.tok
                THEN MatchFrom(pat, i + 1, toks, j + 1, b)
                ELSE NoMatch
           [] p.t = "frag" ->
                IF j <= Len(toks) /\ MayBe(p.frag, toks[j])
                THEN MatchFrom(pat, i + 1, toks, j + 1,
                               [b EXCEPT ![p.name] = <<Bound(p.frag, toks[j])>>])
                ELSE NoMatch
           [] p.t = "rep" ->
                LET r == MatchRep(SubSeq(toks, j, Len(toks))) IN
                IF r.ok THEN [ok |-> TRUE, b |-> [b EXCEPT ![p.name] = r.seq]]
                ELSE NoMatch

Match(pat, toks) == MatchFrom(pat, 1, toks, 1, NoBinds)

\* the first rule that matches, 0 when none does
FirstRule(rules, toks) ==
    IF \E k \in 1..Len(rules) : Match(rules[k], toks).ok
    THEN CHOOSE k \in 1..Len(rules) :
            /\ Match(rules[k], toks).ok
            /\ \A m \in 1..(k - 1) : ~Match(rules[m], toks).ok
    ELSE 0

\* a, b, c
RECURSIVE CommaSep(_)
CommaSep(ts) ==
    IF Len(ts) = 0 THEN <<>>
    ELSE IF Len(ts) = 1 THEN ts
    ELSE <<ts[1], Comma>> \o CommaSep(Tail(ts))

Invoke(macro, toks) == [macro |-> macro, toks |-> toks]

Item(kind, name, list, ty) == [item |-> kind, name |-> name, list |-> list, ty |-> ty]

Names(ts) == [i \in 1..Len(ts) |-> ts[i].v]

\* what an invocation that no rule matches expands to
NoRule == [ok |-> FALSE, pending |-> <<>>, items |-> <<>>]

Expanded(invocations, its) == [ok |-> TRUE, pending |-> invocations, items |-> its]

NewName(b) == b.new_name[1]

\* the traits every rule of standard_struct! names (lib.rs:100, 104, 108)
CommonDerives == <<"Clone", "Debug", "PartialEq", "PartialOrd", "Eq", "Ord">>

\* standard_struct! (lib.rs:98-111)
standard_struct_rules ==
    << <<Frag("new_name", "ident"), Lit(Comma), Rep("other")>>,
       <<Frag("new_name", "ident"), Lit(Ident("serde"))>>,
       <<Frag("new_name", "ident")>> >>

standard_struct(toks) ==
    LET k == FirstRule(standard_struct_rules, toks)
        b == Match(standard_struct_rules[k], toks).b
    IN  CASE k = 0 -> NoRule
          [] k = 1 -> Expanded(<<>>, <<Item("struct", NewName(b).v,
                                            CommonDerives \o Names(b.other), "String")>>)
          [] k = 2 -> Expanded(<<>>, <<Item("struct", NewName(b).v,
                                            CommonDerives \o <<"Hash", "Deserialize", "Serialize">>,
                                            "String")>>)
          [] k = 3 -> Expanded(<<>>, <<Item("struct", NewName(b).v,
                                            CommonDerives \o <<"Hash">>, "String")>>)

\* standard_impls! (lib.rs:115-137)
standard_impls_rules == << <<Frag("new_name", "ident")>> >>

standard_impls(toks) ==
    LET k == FirstRule(standard_impls_rules, toks)
        b == Match(standard_impls_rules[k], toks).b
    IN  CASE k = 0 -> NoRule
          [] k = 1 -> Expanded(<<>>,
                        <<Item("impl Display", NewName(b).v, <<>>, ""),
                          Item("impl From for String", NewName(b).v, <<>>, ""),
                          Item("impl Deref", NewName(b).v, <<>>, "str")>>)

\* is_valid_inner! (lib.rs:141-163)
is_valid_inner_rules ==
    << <<Frag("new_name", "ident"), Lit(Comma), Frag("closure", "expr")>> >>

is_valid_inner(toks) ==
    LET k == FirstRule(is_valid_inner_rules, toks)
        b == Match(is_valid_inner_rules[k], toks).b
    IN  CASE k = 0 -> NoRule
          [] k = 1 -> Expanded(<<Invoke("standard_impls", <<NewName(b)>>)>>,
                        <<Item("impl FromStr", NewName(b).v, <<"Self::is_valid">>, "()"),
                          Item("fn is_valid", NewName(b).v, <<b.closure[1].v>>, "bool")>>)

\* from_str_inner! (lib.rs:167-185)
from_str_inner_rules ==
    << <<Frag("new_name", "ident"), Lit(Comma), Frag("closure", "expr"),
         Lit(Comma), Frag("error", "ty")>> >>

from_str_inner(toks) ==
    LET k == FirstRule(from_str_inner_rules, toks)
        b == Match(from_str_inner_rules[k], toks).b
    IN  CASE k = 0 -> NoRule
          [] k = 1 -> Expanded(<<Invoke("standard_impls", <<NewName(b)>>)>>,
                        <<Item("impl FromStr", NewName(b).v, <<b.closure[1].v>>,
                               b.error[1].v),
                          Item("fn is_valid", NewName(b).v, <<"Self::from_str">>, "bool")>>)

\* is_valid_newstring! (lib.rs:280-291)
is_valid_newstring_rules ==
    << <<Frag("new_name", "ident"), Lit(Comma), Frag("closure", "expr"),
         Lit(Comma), Rep("other")>>,
       <<Frag("new_name", "ident"), Lit(Comma), Frag("closure", "expr")>> >>

is_valid_newstring(toks) ==
    LET k == FirstRule(is_valid_newstring_rules, toks)
        b == Match(is_valid_newstring_rules[k], toks).b
        inner == Invoke("is_valid_inner", <<NewName(b), Comma>> \o b.closure)
    IN  CASE k = 0 -> NoRule
          [] k = 1 -> Expanded(<<Invoke("standard_struct",
                                        <<NewName(b), Comma>> \o CommaSep(b.other)),
                                 inner>>, <<>>)
          [] k = 2 -> Expanded(<<Invoke("standard_struct", <<NewName(b)>>), inner>>, <<>>)

\* from_str_newstring! (lib.rs:389-406)
from_str_newstring_rules ==
    << <<Frag("new_name", "ident"), Lit(Comma), Frag("closure", "expr")>>,
       <<Frag("new_name", "ident"), Lit(Comma), Frag("closure", "expr"),
         Lit(Comma), Rep("other")>>,
       <<Frag("new_name", "ident"), Lit(Comma), Frag("closure", "expr"),
         Lit(Comma), Frag("error", "ty")>>,
       <<Frag("new_name", "ident"), Lit(Comma), Frag("closure", "expr"),
         Lit(Comma), Frag("error", "ty"), Lit(Comma), Rep("other")>> >>

from_str_newstring(toks) ==
    LET k == FirstRule(from_str_newstring_rules, toks)
        b == Match(from_str_newstring_rules[k], toks).b
        head == <<NewName(b), Comma>> \o b.closure
        inner == Invoke("from_str_inner", head \o <<Comma>> \o b.error)
    IN  CASE k = 0 -> NoRule
          [] k = 1 -> Expanded(<<Invoke("from_str_newstring",
                                        head \o <<Comma, Tok("unit", "()")>>)>>, <<>>)
          [] k = 2 -> Expanded(<<Invoke("from_str_newstring",
                                        head \o <<Comma, Tok("unit", "()"), Comma>>
                                             \o CommaSep(b.other))>>, <<>>)
          [] k = 3 -> Expanded(<<Invoke("standard_struct", <<NewName(b)>>), inner>>, <<>>)
          [] k = 4 -> Expanded(<<Invoke("standard_struct",
                                        <<NewName(b), Comma>> \o CommaSep(b.other)),
                                 inner>>, <<>>)

(***************************************************************************)
(* What a caller writes: the macro, the new type's name, the closure, for  *)
(* from_str_newstring! an optional error type, and a list of further       *)
(* traits to derive, set off by a comma (lib.rs:276, 385) or by a          *)
(* semicolon (tests/other_traits.rs:6-8).                                  *)
(***************************************************************************)
Tags == {"Serialize", "Deserialize", "Default"}

TagLists ==
    {l \in UNION {[1..n -> Tags] : n \in 0..MaxTags} :
        \A i, j \in 1..Len(l) : i # j => l[i] # l[j]}

PredicateExprs == {Ident("is_identifier_value"), Tok("path", "str::is_ascii"),
                   Tok("closure", "|s: &str| !s.is_empty()")}

ParseExprs == {Ident("parse_uppercase_only"), Ident("parse_normalized"),
               Tok("closure", "|s: &str| Ok(s.to_string())")}

\* the error type of the Result a parse function returns; "_" when it is
\* left to inference (the closure only ever returns Ok)
ErrorOf(closure) ==
    CASE closure.v = "parse_uppercase_only" -> "()"
      [] closure.v = "parse_normalized"     -> "ParseError"
      [] OTHER                              -> "_"

ErrorTypes == {NoTok, Tok("unit", "()"), Ident("ParseError"),
               Tok("path", "parse::Error")}

\* the derive macros of the language
BuiltinDerives == {"Clone", "Debug", "PartialEq", "PartialOrd", "Eq", "Ord", "Hash",
                   "Default"}

\* the derive macros the caller has brought into scope: none, serde's
\* (use serde::{Deserialize, Serialize}, lib.rs:274), or serde's and one
\* that has the name of the caller's error type (derive macros and types
\* have separate namespaces)
Scopes == {{}, {"Serialize", "Deserialize"}, {"Serialize", "Deserialize", "ParseError"}}

Calls ==
    {c \in [macro : {"is_valid_newstring"}, closure : PredicateExprs,
            error : {NoTok}, others : TagLists, sep : {Comma, Semi}, scope : Scopes]
        \cup [macro : {"from_str_newstring"}, closure : ParseExprs,
              error : ErrorTypes, others : TagLists, sep : {Comma, Semi},
              scope : Scopes] :
        c.others = <<>> => c.sep = Comma}

\* the tokens between the parentheses of the invocation
Written(c) ==
    <<Ident("NewName"), Comma, c.closure>>
        \o (IF c.error = NoTok THEN <<>> ELSE <<Comma, c.error>>)
        \o (IF c.others = <<>> THEN <<>>
            ELSE <<c.sep>> \o CommaSep([i \in 1..Len(c.others) |-> Ident(c.others[i])]))

InitMacro ==
    /\ call \in Calls
    /\ pending = <<Invoke(call.macro, Written(call))>>
    /\ items = <<>>
    /\ outcome = ""
    /\ TypeIdle
    /\ RegexIdle

\* expand the first pending invocation, which is one of `macro`
Expand(macro, e) ==
    /\ pending # <<>>
    /\ Head(pending).macro = macro
    /\ IF e.ok
       THEN /\ pending' = e.pending \o Tail(pending)
            /\ items' = items \o e.items
            /\ UNCHANGED outcome
       ELSE /\ pending' = <<>>
            /\ outcome' = "no rules expected the token"
            /\ UNCHANGED items
    /\ UNCHANGED call
    /\ UNCHANGED <<typeVars, regexVars>>

Toks == IF pending = <<>> THEN <<>> ELSE Head(pending).toks

ExpandIsValidNewstring == Expand("is_valid_newstring", is_valid_newstring(Toks))

ExpandFromStrNewstring == Expand("from_str_newstring", from_str_newstring(Toks))

ExpandStandardStruct == Expand("standard_struct", standard_struct(Toks))

ExpandIsValidInner == Expand("is_valid_inner", is_valid_inner(Toks))

ExpandFromStrInner == Expand("from_str_inner", from_str_inner(Toks))

ExpandStandardImpls == Expand("standard_impls", standard_impls(Toks))

ItemsOf(kind) == {i \in 1..Len(items) : items[i].item = kind}

Range(f) == {f[i] : i \in DOMAIN f}

\* every trait of the struct's derive list names a derive macro in scope
DerivesResolve ==
    \A i \in ItemsOf("struct") :
        Range(items[i].list) \subseteq BuiltinDerives \cup call.scope

\* $closure(s).map(|s| Self(s)) has the type Result<Self, Self::Err>
\* (lib.rs:174-176)
FromStrTypeChecks ==
    \A i \in ItemsOf("impl FromStr") :
        call.macro = "from_str_newstring" =>
            ErrorOf(call.closure) \in {"_", items[i].ty}

\* nothing is left to expand: the compiler resolves the derives, then
\* type-checks the generated items
Compile ==
    /\ pending = <<>>
    /\ outcome = ""
    /\ items # <<>>
    /\ outcome' = IF ~DerivesResolve THEN "cannot find derive macro"
                  ELSE IF ~FromStrTypeChecks THEN "mismatched types"
                  ELSE "compiled"
    /\ UNCHANGED <<call, pending, items>>
    /\ UNCHANGED <<typeVars, regexVars>>

NextMacro ==
    \/ Compile
    \/ ExpandIsValidNewstring
    \/ ExpandFromStrNewstring
    \/ ExpandStandardStruct
    \/ ExpandIsValidInner
    \/ ExpandFromStrInner
    \/ ExpandStandardImpls

SpecMacro == InitMacro /\ [][NextMacro]_vars

\* the program with the invocation in it compiles
Compiled == outcome = "compiled"

(***************************************************************************)
(* Properties of the expansion, checked under SpecMacro.                   *)
(***************************************************************************)
\* the traits the crate documents every generated type to derive (lib.rs:11-12)
FixedDerives == {"Clone", "Debug", "PartialEq", "PartialOrd", "Eq", "Ord", "Hash"}

\* C5: whatever list of extra traits is passed (none, or one or more), the
\* generated struct derives all of Clone, Debug, PartialEq, PartialOrd, Eq,
\* Ord and Hash, and the extra traits besides.
C5_FixedDerivesKept ==
    Compiled =>
        \A i \in ItemsOf("struct") :
            /\ FixedDerives \subseteq Range(items[i].list)
            /\ Range(call.others) \subseteq Range(items[i].list)

\* the error type the caller asked for: the one written, () when none is
WantedError == IF call.error = NoTok THEN "()" ELSE call.error.v

\* C8: in every invocation of from_str_newstring! that compiles, with or
\* without extra traits, FromStr::Err is the error type the caller wrote,
\* and () when the caller wrote none; the error type is never taken for an
\* extra trait and an extra trait never for the error type.
C8_ErrorTypeAsWritten ==
    (call.macro = "from_str_newstring" /\ Compiled) =>
        /\ \A i \in ItemsOf("impl FromStr") : items[i].ty = WantedError
        /\ \A i \in ItemsOf("struct") :
              Range(items[i].list) \ FixedDerives = Range(call.others)

(***************************************************************************)
(* SpecRegex: threads calling the predicate that regex_is_valid! makes     *)
(* (lib.rs:320-325).  lazy_static! keeps the Regex in a cell guarded by a  *)
(* std::sync::Once: the first caller to find the Once INCOMPLETE runs the  *)
(* initializer, callers that find it RUNNING wait, and an initializer that *)
(* panics leaves it POISONED, which makes every later call_once panic.     *)
(* A thread's outcome is "true", "false" or "panic"; a caller that         *)
(* panicked may be caught (catch_unwind) or replaced and call again.       *)
(***************************************************************************)
NumThreads == 2

MaxCalls == 3

Threads == 1..NumThreads

RegexInputs == {<<>>, <<"a">>, <<"7">>, <<"7", "7">>, <<"a", "7">>,
                <<"a", "b", "c", "1", "2", "3">>}

Bool(b) == IF b THEN "true" ELSE "false"

\* a Once that lets a second caller in while the first is still running
once_enter_racy(st) ==
    CASE st = "INCOMPLETE" -> "run"
      [] st = "RUNNING"    -> "run"
      [] st = "COMPLETE"   -> "skip"
      [] st = "POISONED"   -> "panic"

\* Once::call_once, by the state the caller finds
once_enter(st) ==
    CASE st = "INCOMPLETE" -> "run"
      [] st = "RUNNING"    -> "wait"
      [] st = "COMPLETE"   -> "skip"
      [] st = "POISONED"   -> "panic"

\* Result::unwrap_or_default: never panics
unwrap_or_default(r) == [panic |-> FALSE, v |-> r.re]

\* Result::unwrap: the value of an Ok, a panic on an Err
unwrap(r) == [panic |-> ~r.ok, v |-> r.re]

InitRegex ==
    /\ pattern \in Patterns
    /\ once = "INCOMPLETE"
    /\ cell = [some |-> FALSE, re |-> NoRegex]
    /\ compiles = 0
    /\ calls = 0
    /\ tpc = [t \in Threads |-> "idle"]
    /\ targ = [t \in Threads |-> <<>>]
    /\ tret = [t \in Threads |-> "none"]
    /\ TypeIdle
    /\ MacroIdle

\* a thread calls $fn_name(s)
CallPredicate(t) ==
    /\ tpc[t] = "idle"
    /\ calls < MaxCalls
    /\ \E s \in RegexInputs : targ' = [targ EXCEPT ![t] = s]
    /\ tpc' = [tpc EXCEPT ![t] = "call_once"]
    /\ tret' = [tret EXCEPT ![t] = "none"]
    /\ calls' = calls + 1
    /\ UNCHANGED <<pattern, once, cell, compiles>>
    /\ UNCHANGED <<typeVars, macroVars>>

\* the deref of VALID_VALUE enters Once::call_once
CallOnce(t) ==
    /\ tpc[t] = "call_once"
    /\ LET e == once_enter(once) IN
       /\ e # "wait"
       /\ once' = IF e = "run" THEN "RUNNING" ELSE once
       /\ tpc' = [tpc EXCEPT ![t] = CASE e = "run"   -> "init"
                                      [] e = "skip"  -> "is_match"
                                      [] e = "panic" -> "idle"]
       /\ tret' = [tret EXCEPT ![t] = IF e = "panic" THEN "panic" ELSE @]
    /\ UNCHANGED <<pattern, cell, compiles, calls, targ>>
    /\ UNCHANGED <<typeVars, macroVars>>

\* the initializer: Regex::from_str($regex).unwrap(), stored in the cell
Initialize(t) ==
    /\ tpc[t] = "init"
    /\ LET u == unwrap(Regex_from_str(pattern)) IN
       /\ compiles' = compiles + 1
       /\ IF u.panic
          THEN /\ once' = "POISONED"
               /\ tpc' = [tpc EXCEPT ![t] = "idle"]
               /\ tret' = [tret EXCEPT ![t] = "panic"]
               /\ UNCHANGED cell
          ELSE /\ cell' = [some |-> TRUE, re |-> u.v]
               /\ tpc' = [tpc EXCEPT ![t] = "finish"]
               /\ UNCHANGED <<once, tret>>
    /\ UNCHANGED <<pattern, calls, targ>>
    /\ UNCHANGED <<typeVars, macroVars>>

\* call_once returns in the initializing thread: the Once is COMPLETE
Finish(t) ==
    /\ tpc[t] = "finish"
    /\ once' = "COMPLETE"
    /\ tpc' = [tpc EXCEPT ![t] = "is_match"]
    /\ UNCHANGED <<pattern, cell, compiles, calls, targ, tret>>
    /\ UNCHANGED <<typeVars, macroVars>>

\* VALID_VALUE.is_match(s); reading an empty cell is undefined behaviour
IsMatch(t) ==
    /\ tpc[t] = "is_match"
    /\ IF cell.some
       THEN tret' = [tret EXCEPT ![t] = Bool(is_match(cell.re, targ[t]))]
       ELSE \E r \in {"true", "false", "panic"} : tret' = [tret EXCEPT ![t] = r]
    /\ tpc' = [tpc EXCEPT ![t] = "idle"]
    /\ UNCHANGED <<pattern, once, cell, compiles, calls, targ>>
    /\ UNCHANGED <<typeVars, macroVars>>

NextRegex ==
    \E t \in Threads :
        \/ CallPredicate(t)
        \/ CallOnce(t)
        \/ Initialize(t)
        \/ Finish(t)
        \/ IsMatch(t)

SpecRegex == InitRegex /\ [][NextRegex]_vars

(***************************************************************************)
(* Properties of the regex predicate, checked under SpecRegex.             *)
(***************************************************************************)
\* C7: under any interleaving of calls from several threads, concurrent
\* first calls included, the pattern is compiled at most once, exactly once
\* by the time any call returns a boolean, and every call tests its input
\* against the completely initialized matcher.
C7_CompiledOnce ==
    /\ compiles <= 1
    /\ \A t \in Threads :
          /\ tpc[t] = "is_match" =>
                /\ once = "COMPLETE"
                /\ cell = [some |-> TRUE, re |-> Regex_from_str(pattern).re]
          /\ tret[t] \in {"true", "false"} => compiles = 1 /\ cell.some

\* two calls, both begun before either returned, both past call_once
C7_Witness ==
    /\ calls = 2
    /\ compiles = 1
    /\ \E t, u \in Threads :
          t # u /\ tpc[t] = "is_match" /\ tpc[u] = "is_match"

IsDigit(c) == c \in {"0", "1", "2", "3", "4", "5", "6", "7", "8", "9"}

\* C9: on every invocation, the first included, the predicate returns true
\* if and only if the pattern matches somewhere in the input; for [0-9]+
\* (and [0-9]) that is: some char of the input is a digit.
C9_UnanchoredSearch ==
    \A t \in Threads :
        (pattern \in {IntegerPattern, DigitPattern} /\ tret[t] \in {"true", "false"}) =>
            (tret[t] = "true" <=> \E i \in 1..Len(targ[t]) : IsDigit(targ[t][i]))

\* [0-9]+ on "abc123" is true, on the very first call
C9_Witness ==
    /\ pattern = IntegerPattern
    /\ calls = 1
    /\ \E t \in Threads :
          targ[t] = <<"a", "b", "c", "1", "2", "3">> /\ tret[t] = "true"

\* C10: with a malformed pattern no invocation of the predicate, first or
\* later, returns a boolean or an error value: every one panics.
C10_MalformedNeverReturns ==
    ~Regex_from_str(pattern).ok =>
        /\ ~cell.some
        /\ \A t \in Threads : tret[t] \in {"none", "panic"} /\ tpc[t] # "is_match"

\* a malformed pattern, the first call and a later one both ended in a panic
C10_Witness ==
    /\ ~Regex_from_str(pattern).ok
    /\ once = "POISONED"
    /\ calls = MaxCalls
    /\ \A t \in Threads : tpc[t] = "idle" /\ tret[t] = "panic"

====
